---- MODULE Spec2Model ----
(***************************************************************************)
(* Channel-role plugin: the association store (ChannelRoleService) and the *)
(* reconciliation strategy (ChannelRolePermissionResolverStrategy).        *)
(*                                                                         *)
(* An association is a row (id, userId, channelId, roleId).  saveUserRoles *)
(* loads the rows of a user, computes the pairs to add and the rows to     *)
(* remove, creates the former as a concurrent batch and deletes the latter *)
(* one at a time.  Every persistence call is a suspension point, so each   *)
(* is a step of its own here.                                              *)
(***************************************************************************)
EXTENDS Integers, Sequences, FiniteSets, Bags, TLC

VARIABLES
    store,      \* the persisted ChannelRole rows
    nextId,     \* the next primary key the database issues
    tasks,      \* bag of channelRoleService.create calls in flight
    pc,         \* per saveUserRoles call: idle, load, create, remove, done, failed
    user,       \* per call: the `user` argument (its id)
    input,      \* per call: the `input` argument
    current,    \* per call: currentChannelRoles, as find() returned them
    toAddPairs, \* per call: the local toAddPairs
    toRemoveChannelRoles, \* per call: the local toRemoveChannelRoles
    removeIdx,  \* per call: position of the removal loop in toRemoveChannelRoles
    created,    \* per call: creations of its batch that have resolved
    response,   \* per call: the last DeletionResponse the removal loop received
    err,        \* per call: the error saveUserRoles rejected with
    dirty,      \* per call: another operation changed the store since the call began
    foreign,    \* per call: an operation of no call in progress changed the store since then
    repeat,     \* per call: how the call relates to the previous call of its caller
    ev,         \* the outcome of the last direct ChannelRoleService call
    view,       \* what the last getPermissionsForUser call returned
    administratorService, \* the calls the resolver has made on administratorService
    mutation    \* the last mutation of ChannelRoleResolver and how it ended

vars == <<store, nextId, tasks, pc, user, input, current, toAddPairs,
          toRemoveChannelRoles, removeIdx, created, response, err, dirty,
          foreign, repeat, ev, view,
                   administratorService, mutation>>

(***************************************************************************)
(* Bounds of the model.                                                    *)
(***************************************************************************)
NumCalls == 2      \* saveUserRoles calls that may be in progress at once
MaxLen == 2        \* longest desired list passed to saveUserRoles
MaxId == 2         \* primary keys the database issues
MaxTasks == 0      \* create calls in flight when a new saveUserRoles starts

Calls == 1..NumCalls
SeqCalls == {1}

(***************************************************************************)
(* Identifiers: ID = string | number.                                      *)
(***************************************************************************)
NumId(n) == [kind |-> "number", n |-> n]
StrId(s) == [kind |-> "string", s |-> s]

DigitChar(d) ==
    CASE d = 0 -> "0" [] d = 1 -> "1" [] d = 2 -> "2" [] d = 3 -> "3"
      [] d = 4 -> "4" [] d = 5 -> "5" [] d = 6 -> "6" [] d = 7 -> "7"
      [] d = 8 -> "8" [] OTHER -> "9"

RECURSIVE NumToString(_)
NumToString(n) ==
    IF n < 10 THEN DigitChar(n)
    ELSE NumToString(n \div 10) \o DigitChar(n % 10)

\* id.toString()
IdToString(id) == IF id.kind = "number" THEN NumToString(id.n) ELSE id.s

\* idsAreEqual(id1, id2): id1.toString() === id2.toString()
idsAreEqual(id1, id2) == IdToString(id1) = IdToString(id2)

(***************************************************************************)
(* The entities of the host that associations refer to.                    *)
(***************************************************************************)
UserIds == {NumId(42), NumId(43)}
ChannelIds == {NumId(1), NumId(2)}
RoleIds == {NumId(10), NumId(20)}

\* what callers pass as ids: numbers, their string forms, ids of nothing
UserIdInputs == {NumId(42), StrId("43"), NumId(7)}

\* ChannelRoleInput
Pair(channelId, roleId) == [channelId |-> channelId, roleId |-> roleId]
PairInputs ==
    {Pair(NumId(1), NumId(10)), Pair(StrId("1"), StrId("10")),
     Pair(NumId(2), NumId(20)), Pair(NumId(1), StrId("20")),
     Pair(StrId("999"), NumId(10)), Pair(NumId(2), NumId(99))}

SeqsUpTo(S, n) == UNION {[1..m -> S] : m \in 0..n}
Inputs == SeqsUpTo(PairInputs, MaxLen)

\* e.message of a failed repository.remove
ErrMessages == {"", "FOREIGN KEY constraint failed"}

Perms(S) ==
    {f \in [1..Cardinality(S) -> S] : \A i, j \in 1..Cardinality(S) : i # j => f[i] # f[j]}

(***************************************************************************)
(* connection.getEntityOrThrow(ctx, Kind, id) over the entities of a kind. *)
(***************************************************************************)
EntityExists(ids, id) == \E e \in ids : idsAreEqual(e, id)
GetEntity(ids, id) == CHOOSE e \in ids : idsAreEqual(e, id)

NoError == [kind |-> "none", message |-> ""]
EntityNotFoundError == [kind |-> "EntityNotFoundError", message |-> "error.entity-with-id-not-found"]
QueryFailedError == [kind |-> "QueryFailedError", message |-> "save failed"]
NoResponse == [result |-> "none", message |-> ""]
NoMutation == [name |-> "none", input |-> <<>>, outcome |-> "none", message |-> ""]
NoView == [called |-> FALSE, userId |-> NumId(0), entries |-> <<>>]
NoEvent ==
    [op |-> "none", id |-> 0, userId |-> NumId(0), channelId |-> NumId(0),
     roleId |-> NumId(0), outcome |-> "none", message |-> "", cause |-> ""]

(***************************************************************************)
(* ChannelRoleService                                                      *)
(***************************************************************************)
\* create, update: the Promise.all of getEntityOrThrow resolves
RefsResolve(userId, channelId, roleId) ==
    /\ EntityExists(UserIds, userId)
    /\ EntityExists(ChannelIds, channelId)
    /\ EntityExists(RoleIds, roleId)

\* new ChannelRole({ user, channel, role }) as the repository saves it under key id
NewChannelRole(id, userId, channelId, roleId) ==
    [id |-> id,
     userId |-> GetEntity(UserIds, userId),
     channelId |-> GetEntity(ChannelIds, channelId),
     roleId |-> GetEntity(RoleIds, roleId)]

\* faulty variant: an association with the same user, channel and role is found and
\* returned, none is added
CreateFindOrCreate(st, id, userId, channelId, roleId, saveFails) ==
    IF ~RefsResolve(userId, channelId, roleId)
    THEN [raised |-> TRUE, error |-> EntityNotFoundError, store |-> st]
    ELSE IF saveFails
    THEN [raised |-> TRUE, error |-> QueryFailedError, store |-> st]
    ELSE [raised |-> FALSE, error |-> NoError,
          store |-> IF \E cr \in st :
                          [cr EXCEPT !.id = id] = NewChannelRole(id, userId, channelId, roleId)
                    THEN st
                    ELSE st \cup {NewChannelRole(id, userId, channelId, roleId)}]

\* create(ctx, input): what it raises, and the store it leaves.
\* id: the key the database issues; saveFails: repository.save rejects
Create(st, id, userId, channelId, roleId, saveFails) ==
    IF ~RefsResolve(userId, channelId, roleId)
    THEN [raised |-> TRUE, error |-> EntityNotFoundError, store |-> st]
    ELSE IF saveFails
    THEN [raised |-> TRUE, error |-> QueryFailedError, store |-> st]
    ELSE [raised |-> FALSE, error |-> NoError,
          store |-> st \cup {NewChannelRole(id, userId, channelId, roleId)}]

ChannelRoleExists(st, id) == \E cr \in st : cr.id = id

\* faulty variant: the association is not loaded first, the save is an upsert under id
UpdateUpsert(st, id, userId, channelId, roleId, saveFails) ==
    IF ~RefsResolve(userId, channelId, roleId)
    THEN [raised |-> TRUE, error |-> EntityNotFoundError, store |-> st]
    ELSE IF saveFails
    THEN [raised |-> TRUE, error |-> QueryFailedError, store |-> st]
    ELSE [raised |-> FALSE, error |-> NoError,
          store |-> {cr \in st : cr.id # id}
                       \cup {NewChannelRole(id, userId, channelId, roleId)}]

\* faulty variant: channel and role are overwritten, the user of the association stays
UpdateKeepsUser(st, id, userId, channelId, roleId, saveFails) ==
    IF ~(ChannelRoleExists(st, id) /\ RefsResolve(userId, channelId, roleId))
    THEN [raised |-> TRUE, error |-> EntityNotFoundError, store |-> st]
    ELSE IF saveFails
    THEN [raised |-> TRUE, error |-> QueryFailedError, store |-> st]
    ELSE [raised |-> FALSE, error |-> NoError,
          store |-> {cr \in st : cr.id # id}
                       \cup {NewChannelRole(id, cr.userId, channelId, roleId) :
                                cr \in {x \in st : x.id = id}}]

\* update(ctx, input): what it raises, and the store it leaves
Update(st, id, userId, channelId, roleId, saveFails) ==
    IF ~(ChannelRoleExists(st, id) /\ RefsResolve(userId, channelId, roleId))
    THEN [raised |-> TRUE, error |-> EntityNotFoundError, store |-> st]
    ELSE IF saveFails
    THEN [raised |-> TRUE, error |-> QueryFailedError, store |-> st]
    ELSE [raised |-> FALSE, error |-> NoError,
          store |-> {cr \in st : cr.id # id}
                       \cup {NewChannelRole(id, userId, channelId, roleId)}]

\* faulty variant: no try/catch around repository.remove, its error is raised
DeleteNoCatch(st, id, removeFails, message) ==
    IF ~ChannelRoleExists(st, id) \/ removeFails
    THEN [raised |-> TRUE, response |-> NoResponse, store |-> st]
    ELSE [raised |-> FALSE,
          response |-> [result |-> "DELETED", message |-> ""],
          store |-> {cr \in st : cr.id # id}]

\* faulty variant: deleting an association that is gone reports DELETED
DeleteIdempotent(st, id, removeFails, message) ==
    IF ~ChannelRoleExists(st, id)
    THEN [raised |-> FALSE,
          response |-> [result |-> "DELETED", message |-> ""],
          store |-> st]
    ELSE IF removeFails
    THEN [raised |-> FALSE,
          response |-> [result |-> "NOT_DELETED", message |-> message],
          store |-> st]
    ELSE [raised |-> FALSE,
          response |-> [result |-> "DELETED", message |-> ""],
          store |-> {cr \in st : cr.id # id}]

\* delete(ctx, id): what it raises or returns, and the store it leaves.
\* removeFails, message: whether repository.remove throws, and its e.message
Delete(st, id, removeFails, message) ==
    IF ~ChannelRoleExists(st, id)
    THEN [raised |-> TRUE, response |-> NoResponse, store |-> st]
    ELSE IF removeFails
    THEN [raised |-> FALSE,
          response |-> [result |-> "NOT_DELETED", message |-> message],
          store |-> st]
    ELSE [raised |-> FALSE,
          response |-> [result |-> "DELETED", message |-> ""],
          store |-> {cr \in st : cr.id # id}]

(***************************************************************************)
(* ChannelRolePermissionResolverStrategy.saveUserRoles                     *)
(***************************************************************************)
\* faulty variant: the find has no where clause
RowsOfUserAll(st, userId) == st

\* find({ where: { user: { id: user.id } } })
RowsOfUser(st, userId) == {cr \in st : idsAreEqual(cr.userId, userId)}

\* faulty variant: the ids compared with ===, a number never equal to its string form
PairMatchesStrict(cr, p) == cr.roleId = p.roleId /\ cr.channelId = p.channelId

\* the test of both loops: idsAreEqual on the role ids and on the channel ids
PairMatches(cr, p) ==
    idsAreEqual(cr.roleId, p.roleId) /\ idsAreEqual(cr.channelId, p.channelId)

\* faulty variant: every desired pair is created, whether a current row matches or not
ToAddPairsAll(cur, inp) == inp

\* the first loop: desired pairs that no current row matches
ToAddPairs(cur, inp) ==
    SelectSeq(inp, LAMBDA p : ~\E i \in 1..Len(cur) : PairMatches(cur[i], p))

\* faulty variant: the second loop compares the channel ids only
ToRemoveChannelRolesChannelOnly(cur, inp) ==
    SelectSeq(cur, LAMBDA cr :
        ~\E i \in 1..Len(inp) : idsAreEqual(cr.channelId, inp[i].channelId))

\* faulty variant: the rows to remove are collected last first
ToRemoveChannelRolesReversed(cur, inp) ==
    LET q == SelectSeq(cur, LAMBDA cr :
                 ~\E i \in 1..Len(inp) :
                     idsAreEqual(cr.roleId, inp[i].roleId)
                     /\ idsAreEqual(cr.channelId, inp[i].channelId))
    IN  [i \in 1..Len(q) |-> q[Len(q) + 1 - i]]

\* the second loop: current rows that no desired pair matches
ToRemoveChannelRoles(cur, inp) ==
    SelectSeq(cur, LAMBDA cr : ~\E i \in 1..Len(inp) : PairMatches(cr, inp[i]))

\* faulty variant: the message of the response is dropped
DeletionFailedMessageDropped(message) == "Unknown error"

\* the message of the InternalServerError: response.message || 'Unknown error'
DeletionFailedMessage(message) == IF message = "" THEN "Unknown error" ELSE message

\* faulty variant: the call returns once the creations have resolved
AfterCreatesReturns(toRemove) == "done"

\* where the call goes once the Promise.all of the creations has resolved
AfterCreates(toRemove) == IF Len(toRemove) = 0 THEN "done" ELSE "remove"

\* the bag of the elements of a sequence
SeqToBag(q) == [x \in {q[i] : i \in 1..Len(q)} |-> Cardinality({i \in 1..Len(q) : q[i] = x})]

\* the creations of call c still in flight
TasksOf(b, c) == {t \in BagToSet(b) : t.owner = c}

\* a rejected Promise.all lets go of the creations still in flight: they run on,
\* owned by no call (owner 0)
Detach(b, c) ==
    LET Moved(t) == IF t.owner = c THEN [t EXCEPT !.owner = 0] ELSE t
    IN  [u \in {Moved(t) : t \in BagToSet(b)} |->
            CopiesIn(u, b) + (IF u.owner = 0 THEN CopiesIn([u EXCEPT !.owner = c], b) ELSE 0)]

\* the store changed by `actor`: every other call that has begun sees interference
Touched(actor) == [d \in Calls |-> dirty[d] \/ (d # actor /\ pc[d] # "idle")]

\* the store changed by `actor`: when it is no call in progress (a creation let go by
\* its batch, a direct service call) every call that has begun sees a foreign change
ForeignTouched(actor) ==
    [d \in Calls |-> foreign[d] \/ (actor \notin Calls /\ pc[d] # "idle")]

SamePairs(inp1, inp2) ==
    /\ \A i \in 1..Len(inp1) : \E j \in 1..Len(inp2) :
          idsAreEqual(inp1[i].channelId, inp2[j].channelId)
          /\ idsAreEqual(inp1[i].roleId, inp2[j].roleId)
    /\ \A j \in 1..Len(inp2) : \E i \in 1..Len(inp1) :
          idsAreEqual(inp1[i].channelId, inp2[j].channelId)
          /\ idsAreEqual(inp1[i].roleId, inp2[j].roleId)

Init ==
    /\ store = {}
    /\ nextId = 1
    /\ tasks = EmptyBag
    /\ pc = [c \in Calls |-> "idle"]
    /\ user = [c \in Calls |-> NumId(42)]
    /\ input = [c \in Calls |-> <<>>]
    /\ current = [c \in Calls |-> <<>>]
    /\ toAddPairs = [c \in Calls |-> <<>>]
    /\ toRemoveChannelRoles = [c \in Calls |-> <<>>]
    /\ removeIdx = [c \in Calls |-> 1]
    /\ created = [c \in Calls |-> 0]
    /\ response = [c \in Calls |-> NoResponse]
    /\ err = [c \in Calls |-> NoError]
    /\ dirty = [c \in Calls |-> FALSE]
    /\ foreign = [c \in Calls |-> FALSE]
    /\ repeat = [c \in Calls |-> "no"]
    /\ ev = NoEvent
    /\ view = NoView
    /\ administratorService = <<>>
    /\ mutation = NoMutation

(***************************************************************************)
(* saveUserRoles, step by step.                                            *)
(***************************************************************************)
\* saveUserRoles(ctx, user, input) is called: it issues the find and suspends
SaveBegin(c, u, inp) ==
    /\ pc[c] \in {"idle", "done", "failed"}
    /\ BagCardinality(tasks) <= MaxTasks
    /\ pc' = [pc EXCEPT ![c] = "load"]
    /\ user' = [user EXCEPT ![c] = u]
    /\ input' = [input EXCEPT ![c] = inp]
    /\ current' = [current EXCEPT ![c] = <<>>]
    /\ toAddPairs' = [toAddPairs EXCEPT ![c] = <<>>]
    /\ toRemoveChannelRoles' = [toRemoveChannelRoles EXCEPT ![c] = <<>>]
    /\ removeIdx' = [removeIdx EXCEPT ![c] = 1]
    /\ created' = [created EXCEPT ![c] = 0]
    /\ response' = [response EXCEPT ![c] = NoResponse]
    /\ err' = [err EXCEPT ![c] = NoError]
    /\ dirty' = [dirty EXCEPT ![c] = FALSE]
    /\ foreign' = [foreign EXCEPT ![c] = FALSE]
    /\ repeat' = [repeat EXCEPT ![c] =
            IF pc[c] = "idle" \/ user[c] # u \/ ~SamePairs(input[c], inp) THEN "no"
            ELSE IF pc[c] = "done" THEN (IF dirty[c] THEN "no" ELSE "afterOk")
            ELSE IF created[c] > 0 \/ removeIdx[c] > 1
                 THEN "afterPartialFail" ELSE "afterFail"]
    /\ UNCHANGED <<store, nextId, tasks, ev, view,
                   administratorService, mutation>>

\* the find resolves: both diff loops run, then every creation is started
SaveLoad(c) ==
    /\ pc[c] = "load"
    /\ \E cur \in Perms(RowsOfUser(store, user[c])) :
         LET toAdd == ToAddPairs(cur, input[c])
             toRemove == ToRemoveChannelRoles(cur, input[c])
             started == [i \in 1..Len(toAdd) |->
                            [owner |-> c, userId |-> user[c],
                             channelId |-> toAdd[i].channelId,
                             roleId |-> toAdd[i].roleId, stage |-> "lookup"]]
         IN  /\ current' = [current EXCEPT ![c] = cur]
             /\ toAddPairs' = [toAddPairs EXCEPT ![c] = toAdd]
             /\ toRemoveChannelRoles' = [toRemoveChannelRoles EXCEPT ![c] = toRemove]
             /\ tasks' = tasks (+) SeqToBag(started)
             /\ pc' = [pc EXCEPT ![c] =
                    IF Len(toAdd) > 0 THEN "create" ELSE AfterCreates(toRemove)]
    /\ UNCHANGED <<store, nextId, user, input, removeIdx, created, response, err, dirty,
                   foreign, repeat, ev, view,
                   administratorService, mutation>>
\* faulty variant: a rejected batch undoes the rows the call has created
BatchRejectsRollback(c, e, rest) ==
    /\ store' = {cr \in store :
                    ~(idsAreEqual(cr.userId, user[c]) /\ cr \notin {current[c][i] : i \in 1..Len(current[c])})}
    /\ pc' = [pc EXCEPT ![c] = "failed"]
    /\ err' = [err EXCEPT ![c] = e]
    /\ tasks' = Detach(rest, c)

\* faulty variant: Promise.allSettled, a rejected creation is not seen by the call
BatchRejectsSettled(c, e, rest) ==
    /\ store' = store
    /\ pc' = [pc EXCEPT ![c] =
           IF TasksOf(rest, c) = {} THEN AfterCreates(toRemoveChannelRoles[c]) ELSE @]
    /\ err' = err
    /\ tasks' = rest

\* a creation of the batch of call c rejects with e: the Promise.all rejects at
\* once, saveUserRoles rejects with e, the other creations are let go
BatchRejects(c, e, rest) ==
    /\ store' = store
    /\ pc' = [pc EXCEPT ![c] = "failed"]
    /\ err' = [err EXCEPT ![c] = e]
    /\ tasks' = Detach(rest, c)

\* create: the three getEntityOrThrow settle
CreateLookup(t) ==
    /\ t \in BagToSet(tasks)
    /\ t.stage = "lookup"
    /\ LET rest == tasks (-) SetToBag({t})
       IN  IF RefsResolve(t.userId, t.channelId, t.roleId)
           THEN /\ tasks' = rest (+) SetToBag({[t EXCEPT !.stage = "save"]})
                /\ UNCHANGED <<store, pc, err>>
           ELSE IF t.owner \in Calls
           THEN BatchRejects(t.owner, EntityNotFoundError, rest)
           ELSE /\ tasks' = rest
                /\ UNCHANGED <<store, pc, err>>
    /\ UNCHANGED <<nextId, user, input, current, toAddPairs, toRemoveChannelRoles,
                   removeIdx, created, response, dirty, foreign, repeat, ev, view,
                   administratorService, mutation>>

\* create: repository.save settles; saveFails: the database rejects the insert
CreateSave(t, saveFails) ==
    /\ t \in BagToSet(tasks)
    /\ t.stage = "save"
    /\ saveFails \/ nextId <= MaxId
    /\ LET rest == tasks (-) SetToBag({t})
           r == Create(store, nextId, t.userId, t.channelId, t.roleId, saveFails)
       IN  IF r.raised
           THEN /\ IF t.owner \in Calls
                   THEN BatchRejects(t.owner, r.error, rest)
                   ELSE tasks' = rest /\ UNCHANGED <<store, pc, err>>
                /\ UNCHANGED <<nextId, created, dirty, foreign>>
           ELSE /\ store' = r.store
                /\ nextId' = nextId + 1
                /\ tasks' = rest
                /\ dirty' = Touched(t.owner)
                /\ foreign' = ForeignTouched(t.owner)
                /\ IF t.owner \in Calls
                   THEN /\ created' = [created EXCEPT ![t.owner] = @ + 1]
                        /\ pc' = [pc EXCEPT ![t.owner] =
                               IF TasksOf(rest, t.owner) = {}
                               THEN AfterCreates(toRemoveChannelRoles[t.owner])
                               ELSE @]
                   ELSE UNCHANGED <<created, pc>>
                /\ UNCHANGED err
    /\ UNCHANGED <<user, input, current, toAddPairs, toRemoveChannelRoles, removeIdx,
                   response, repeat, ev, view,
                   administratorService, mutation>>

\* one pass of the removal loop: delete settles, then the NOT_DELETED test
RemoveStep(c, removeFails, message) ==
    /\ pc[c] = "remove"
    /\ LET channelRole == toRemoveChannelRoles[c][removeIdx[c]]
           d == Delete(store, channelRole.id, removeFails, message)
       IN  /\ store' = d.store
           /\ dirty' = IF d.store # store THEN Touched(c) ELSE dirty
           /\ response' = [response EXCEPT ![c] = d.response]
           /\ IF d.raised
              THEN /\ pc' = [pc EXCEPT ![c] = "failed"]
                   /\ err' = [err EXCEPT ![c] = EntityNotFoundError]
                   /\ UNCHANGED removeIdx
              ELSE IF d.response.result = "NOT_DELETED"
              THEN /\ pc' = [pc EXCEPT ![c] = "failed"]
                   /\ err' = [err EXCEPT ![c] =
                          [kind |-> "InternalServerError",
                           message |-> DeletionFailedMessage(d.response.message)]]
                   /\ UNCHANGED removeIdx
              ELSE /\ removeIdx' = [removeIdx EXCEPT ![c] = @ + 1]
                   /\ pc' = [pc EXCEPT ![c] =
                          IF removeIdx[c] = Len(toRemoveChannelRoles[c])
                          THEN "done" ELSE "remove"]
                   /\ UNCHANGED err
    /\ UNCHANGED <<nextId, tasks, user, input, current, toAddPairs, toRemoveChannelRoles,
                   created, foreign, repeat, ev, view,
                   administratorService, mutation>>

SaveStep(c) ==
    \/ \E u \in UserIds, inp \in Inputs : SaveBegin(c, u, inp)
    \/ SaveLoad(c)
    \/ \E removeFails \in BOOLEAN :
          \E message \in (IF removeFails THEN ErrMessages ELSE {""}) :
             RemoveStep(c, removeFails, message)

CreateStep ==
    \E t \in BagToSet(tasks) :
       \/ CreateLookup(t)
       \/ \E saveFails \in BOOLEAN : CreateSave(t, saveFails)

\* one caller: a saveUserRoles call starts when the previous one has settled
Next == (\E c \in SeqCalls : SaveStep(c)) \/ CreateStep

Spec == Init /\ [][Next]_vars

(***************************************************************************)
(* Several callers saving the roles of the same user at once: nothing      *)
(* orders their finds, creations and deletions.                            *)
(***************************************************************************)
RaceUser == NumId(42)
RaceInputs ==
    SeqsUpTo({Pair(NumId(1), NumId(10)), Pair(NumId(2), NumId(20)),
              Pair(NumId(1), StrId("20"))}, MaxLen)

\* the rows the user has when the callers arrive
RaceStores ==
    {{}, {NewChannelRole(1, RaceUser, NumId(1), NumId(10))},
     {NewChannelRole(1, RaceUser, NumId(1), NumId(10)),
      NewChannelRole(2, RaceUser, NumId(2), NumId(20))}}

InitRace ==
    /\ store \in RaceStores
    /\ nextId = Cardinality(store) + 1
    /\ tasks = EmptyBag
    /\ pc = [c \in Calls |-> "idle"]
    /\ user = [c \in Calls |-> RaceUser]
    /\ input = [c \in Calls |-> <<>>]
    /\ current = [c \in Calls |-> <<>>]
    /\ toAddPairs = [c \in Calls |-> <<>>]
    /\ toRemoveChannelRoles = [c \in Calls |-> <<>>]
    /\ removeIdx = [c \in Calls |-> 1]
    /\ created = [c \in Calls |-> 0]
    /\ response = [c \in Calls |-> NoResponse]
    /\ err = [c \in Calls |-> NoError]
    /\ dirty = [c \in Calls |-> FALSE]
    /\ foreign = [c \in Calls |-> FALSE]
    /\ repeat = [c \in Calls |-> "no"]
    /\ ev = NoEvent
    /\ view = NoView
    /\ administratorService = <<>>
    /\ mutation = NoMutation

\* each caller saves once
RaceStep(c) ==
    \/ \E inp \in RaceInputs : pc[c] = "idle" /\ SaveBegin(c, RaceUser, inp)
    \/ SaveLoad(c)
    \/ \E removeFails \in BOOLEAN :
          \E message \in (IF removeFails THEN ErrMessages ELSE {""}) :
             RemoveStep(c, removeFails, message)

NextRace == (\E c \in Calls : RaceStep(c)) \/ CreateStep

SpecRace == InitRace /\ [][NextRace]_vars

\* callers that race with one desired pair or none, and calls that follow the race:
\* a later saveUserRoles is called once every caller has settled
LaterInputs ==
    {<<>>, <<Pair(NumId(1), NumId(10))>>, <<Pair(StrId("1"), StrId("10"))>>,
     <<Pair(NumId(2), NumId(20))>>}

LaterStep(c) ==
    \/ \E inp \in LaterInputs :
          /\ pc[c] = "idle" \/ \A d \in Calls : pc[d] \in {"done", "failed"}
          /\ SaveBegin(c, RaceUser, inp)
    \/ SaveLoad(c)
    \/ \E removeFails \in BOOLEAN :
          \E message \in (IF removeFails THEN ErrMessages ELSE {""}) :
             RemoveStep(c, removeFails, message)

NextLater == (\E c \in Calls : LaterStep(c)) \/ CreateStep

SpecLater == InitRace /\ [][NextLater]_vars
(***************************************************************************)
(* ChannelRoleService called on its own, each call run to its end.         *)
(***************************************************************************)
\* what the caller passed and got; cause: the e.message of the failed repository call
Event(op, id, userId, channelId, roleId, outcome, message, cause) ==
    [op |-> op, id |-> id, userId |-> userId, channelId |-> channelId,
     roleId |-> roleId, outcome |-> outcome, message |-> message, cause |-> cause]

StoreCreate(userId, p, saveFails) ==
    /\ nextId <= MaxId
    /\ LET r == Create(store, nextId, userId, p.channelId, p.roleId, saveFails)
       IN  /\ store' = r.store
           /\ nextId' = IF r.raised THEN nextId ELSE nextId + 1
           /\ dirty' = IF r.raised THEN dirty ELSE Touched(0)
           /\ foreign' = IF r.raised THEN foreign ELSE ForeignTouched(0)
           /\ ev' = Event("create", nextId, userId, p.channelId, p.roleId,
                          IF r.raised THEN r.error.kind ELSE "created", "", "")
    /\ UNCHANGED <<tasks, pc, user, input, current, toAddPairs, toRemoveChannelRoles,
                   removeIdx, created, response, err, repeat, view,
                   administratorService, mutation>>

StoreUpdate(id, userId, p, saveFails) ==
    /\ LET r == Update(store, id, userId, p.channelId, p.roleId, saveFails)
       IN  /\ store' = r.store
           /\ dirty' = IF r.raised THEN dirty ELSE Touched(0)
           /\ foreign' = IF r.raised THEN foreign ELSE ForeignTouched(0)
           /\ ev' = Event("update", id, userId, p.channelId, p.roleId,
                          IF r.raised THEN r.error.kind ELSE "updated", "", "")
    /\ UNCHANGED <<nextId, tasks, pc, user, input, current, toAddPairs,
                   toRemoveChannelRoles, removeIdx, created, response, err, repeat, view,
                   administratorService, mutation>>

StoreDelete(id, removeFails, message) ==
    /\ LET d == Delete(store, id, removeFails, message)
       IN  /\ store' = d.store
           /\ dirty' = IF d.store # store THEN Touched(0) ELSE dirty
           /\ foreign' = IF d.store # store THEN ForeignTouched(0) ELSE foreign
           /\ ev' = Event("delete", id, NumId(0), NumId(0), NumId(0),
                          IF d.raised THEN EntityNotFoundError.kind ELSE d.response.result,
                          d.response.message, message)
    /\ UNCHANGED <<nextId, tasks, pc, user, input, current, toAddPairs,
                   toRemoveChannelRoles, removeIdx, created, response, err, repeat, view,
                   administratorService, mutation>>

StoreStep ==
    \/ \E userId \in UserIdInputs, p \in PairInputs, saveFails \in BOOLEAN :
          StoreCreate(userId, p, saveFails)
    \/ \E id \in 1..MaxId, userId \in UserIdInputs, p \in PairInputs, saveFails \in BOOLEAN :
          StoreUpdate(id, userId, p, saveFails)
    \/ \E id \in 1..MaxId, removeFails \in BOOLEAN :
          \E message \in (IF removeFails THEN ErrMessages ELSE {""}) :
             StoreDelete(id, removeFails, message)

NextStore == StoreStep

\* the service alone
SpecStore == Init /\ [][NextStore]_vars

(***************************************************************************)
(* getPermissionsForUser over the rows the service has persisted.          *)
(***************************************************************************)
\* entry.channel.token, entry.channel.code, entry.role.permissions
ChannelToken(channelId) == "token-" \o IdToString(channelId)
ChannelCode(channelId) == "channel-" \o IdToString(channelId)
RolePermissions(roleId) ==
    IF idsAreEqual(roleId, NumId(10)) THEN {"ReadCatalog", "UpdateCatalog"}
    ELSE {"ReadOrder", "UpdateOrder"}

\* faulty variant: every entry carries the permissions of the first entry's role
GetPermissionsForUserFirstRole(channelRoleEntries) ==
    [i \in 1..Len(channelRoleEntries) |->
        [id |-> channelRoleEntries[i].channelId,
         token |-> ChannelToken(channelRoleEntries[i].channelId),
         code |-> ChannelCode(channelRoleEntries[i].channelId),
         permissions |-> RolePermissions(channelRoleEntries[1].roleId)]]

\* faulty variant: one entry per distinct channel, the permissions of its roles merged
GetPermissionsForUserMerged(channelRoleEntries) ==
    LET n == Len(channelRoleEntries)
        first == SelectSeq([i \in 1..n |-> i],
                     LAMBDA i : \A j \in 1..(i - 1) :
                         channelRoleEntries[j].channelId # channelRoleEntries[i].channelId)
    IN  [k \in 1..Len(first) |->
            [id |-> channelRoleEntries[first[k]].channelId,
             token |-> ChannelToken(channelRoleEntries[first[k]].channelId),
             code |-> ChannelCode(channelRoleEntries[first[k]].channelId),
             permissions |->
                 UNION {RolePermissions(channelRoleEntries[j].roleId) :
                          j \in {j \in 1..n : channelRoleEntries[j].channelId
                                                = channelRoleEntries[first[k]].channelId}}]]

\* channelRoleEntries.map(entry => ({ id, token, code, permissions }))
GetPermissionsForUser(channelRoleEntries) ==
    [i \in 1..Len(channelRoleEntries) |->
        [id |-> channelRoleEntries[i].channelId,
         token |-> ChannelToken(channelRoleEntries[i].channelId),
         code |-> ChannelCode(channelRoleEntries[i].channelId),
         permissions |-> RolePermissions(channelRoleEntries[i].roleId)]]

\* getPermissionsForUser(user): the find resolves in some row order, the map runs
GetPermissionsStep(u) ==
    /\ \E channelRoleEntries \in Perms(RowsOfUser(store, u)) :
          view' = [called |-> TRUE, userId |-> u,
                   entries |-> GetPermissionsForUser(channelRoleEntries)]
    /\ UNCHANGED <<store, nextId, tasks, pc, user, input, current, toAddPairs,
                   toRemoveChannelRoles, removeIdx, created, response, err, dirty,
                   foreign, repeat, ev, administratorService, mutation>>

\* associations come and go between the queries
ViewStoreStep ==
    \/ \E userId \in UserIds, p \in PairInputs : StoreCreate(userId, p, FALSE)
    \/ \E id \in 1..MaxId : StoreDelete(id, FALSE, "")

NextView == ViewStoreStep \/ (\E u \in UserIds : GetPermissionsStep(u))

SpecView == Init /\ [][NextView]_vars
(***************************************************************************)
(* ChannelRoleResolver: the mutations it overrides and the ones it adds.   *)
(***************************************************************************)
MaxAdminCalls == 2   \* calls on administratorService that are recorded

AdministratorIds == {NumId(1), NumId(2)}
ChannelRolesInputs == SeqsUpTo({Pair(NumId(1), NumId(10)), Pair(NumId(2), NumId(20))}, 1)

\* CreateAdministratorInput, CreateChannelAdministratorInput
CreateAdministratorInputs ==
    {[emailAddress |-> "admin@test.com", channelRoles |-> r] : r \in ChannelRolesInputs}

\* UpdateAdministratorInput, UpdateChannelAdministratorInput
UpdateAdministratorInputs ==
    {[id |-> i, channelRoles |-> r] : i \in AdministratorIds, r \in ChannelRolesInputs}

Mutation(name, argsInput, outcome, message) ==
    [name |-> name, input |-> argsInput, outcome |-> outcome, message |-> message]

\* faulty variant: the default resolver, which hands the input to administratorService
CreateAdministratorDelegates(argsInput) ==
    /\ Len(administratorService) < MaxAdminCalls
    /\ administratorService' = Append(administratorService, [method |-> "create", input |-> argsInput])
    /\ mutation' = Mutation("createAdministrator", argsInput, "returned", "")

\* createAdministrator(ctx, args): throws
CreateAdministrator(argsInput) ==
    /\ administratorService' = administratorService
    /\ mutation' = Mutation("createAdministrator", argsInput, "IllegalOperationError",
                            "error.channel-role-plugin-create-administrator-deprecated")

\* updateAdministrator(ctx, args): throws
UpdateAdministrator(argsInput) ==
    /\ administratorService' = administratorService
    /\ mutation' = Mutation("updateAdministrator", argsInput, "IllegalOperationError",
                            "error.channel-role-plugin-update-administrator-deprecated")

\* createChannelAdministrator(ctx, args): administratorService.create(ctx, args.input)
CreateChannelAdministrator(argsInput) ==
    /\ Len(administratorService) < MaxAdminCalls
    /\ administratorService' = Append(administratorService, [method |-> "create", input |-> argsInput])
    /\ mutation' = Mutation("createChannelAdministrator", argsInput, "returned", "")

\* updateChannelAdministrator(ctx, args): administratorService.update(ctx, args.input)
UpdateChannelAdministrator(argsInput) ==
    /\ Len(administratorService) < MaxAdminCalls
    /\ administratorService' = Append(administratorService, [method |-> "update", input |-> argsInput])
    /\ mutation' = Mutation("updateChannelAdministrator", argsInput, "returned", "")

ResolverStep ==
    /\ \/ \E argsInput \in CreateAdministratorInputs : CreateAdministrator(argsInput)
       \/ \E argsInput \in UpdateAdministratorInputs : UpdateAdministrator(argsInput)
       \/ \E argsInput \in CreateAdministratorInputs : CreateChannelAdministrator(argsInput)
       \/ \E argsInput \in UpdateAdministratorInputs : UpdateChannelAdministrator(argsInput)
    /\ UNCHANGED <<store, nextId, tasks, pc, user, input, current, toAddPairs,
                   toRemoveChannelRoles, removeIdx, created, response, err, dirty,
                   foreign, repeat, ev, view>>

NextResolver == ResolverStep

SpecResolver == Init /\ [][NextResolver]_vars

(***************************************************************************)
(* Properties.                                                             *)
(***************************************************************************)
\* the (channelId, roleId) pairs persisted for a user, ids in their string form
PersistedPairs(userId) ==
    {<<IdToString(cr.channelId), IdToString(cr.roleId)>> : cr \in RowsOfUser(store, userId)}

\* the pairs of a desired list, ids in their string form
DesiredPairs(inp) ==
    {<<IdToString(inp[i].channelId), IdToString(inp[i].roleId)>> : i \in 1..Len(inp)}

Range(q) == {q[i] : i \in 1..Len(q)}

\* C1 Convergence: when saveUserRoles(U, D) has completed without error and no
\* other operation changed the store meanwhile, the pairs persisted for U are
\* exactly the pairs of D, whatever the order of D and its duplicates.
Convergence ==
    \A c \in Calls :
       (pc[c] = "done" /\ ~dirty[c]) => PersistedPairs(user[c]) = DesiredPairs(input[c])

\* a successful call that both created and removed
ConvergenceWitness ==
    \E c \in Calls :
       /\ pc[c] = "done" /\ ~dirty[c]
       /\ Len(toAddPairs[c]) > 0
       /\ Len(toRemoveChannelRoles[c]) > 0
       /\ PersistedPairs(user[c]) = DesiredPairs(input[c])

\* C2 Idempotence: a call that repeats the desired pairs of the successful call
\* before it, with no change of the store in between, computes an empty diff
\* when its find resolves: nothing to add, nothing to remove, no creation
\* started, the store as it was, and the call is done.
Idempotence ==
    [][\A c \in Calls :
         (pc[c] = "load" /\ pc'[c] # "load" /\ repeat[c] = "afterOk" /\ ~dirty'[c])
         => /\ toAddPairs'[c] = <<>>
            /\ toRemoveChannelRoles'[c] = <<>>
            /\ tasks' = tasks
            /\ store' = store
            /\ pc'[c] = "done"]_vars

\* the repeated call has ended, over a store that holds two rows
IdempotenceWitness ==
    \E c \in Calls :
       /\ pc[c] = "done" /\ repeat[c] = "afterOk"
       /\ Len(input[c]) = 2
       /\ Cardinality(RowsOfUser(store, user[c])) = 2
\* some id that create or update was given resolves to nothing
Unresolved(e, st) ==
    \/ ~EntityExists(UserIds, e.userId)
    \/ ~EntityExists(ChannelIds, e.channelId)
    \/ ~EntityExists(RoleIds, e.roleId)
    \/ e.op = "update" /\ ~ChannelRoleExists(st, e.id)

\* C3 Referential integrity: create given a user, channel or role id that does
\* not resolve, and update given such an id or an association id that does not
\* resolve, raise EntityNotFoundError and leave every association as it was.
ReferentialIntegrity ==
    [][(ev'.op \in {"create", "update"} /\ Unresolved(ev', store))
         => (ev'.outcome = "EntityNotFoundError" /\ store' = store /\ nextId' = nextId)]_vars

\* update of an existing association was refused for a role id of nothing
ReferentialIntegrityWitness ==
    /\ ev.op = "update" /\ ev.outcome = "EntityNotFoundError"
    /\ ChannelRoleExists(store, ev.id)
    /\ EntityExists(UserIds, ev.userId)
    /\ EntityExists(ChannelIds, ev.channelId)
    /\ ~EntityExists(RoleIds, ev.roleId)

\* the desired list names a channel or a role that does not exist
HasUnknownPair(inp) ==
    \E i \in 1..Len(inp) :
       \/ ~EntityExists(ChannelIds, inp[i].channelId)
       \/ ~EntityExists(RoleIds, inp[i].roleId)

\* C4 A saveUserRoles whose desired list holds a pair with a channel id or a
\* role id of nothing never reports success, and when it has settled it has
\* rejected with an error.
UnknownPairRejected ==
    \A c \in Calls :
       HasUnknownPair(input[c])
       => /\ pc[c] # "done"
          /\ (pc[c] = "failed" => err[c].kind # "none")

\* a call rejected with EntityNotFoundError after another creation of its batch
\* had been saved
UnknownPairRejectedWitness ==
    \E c \in Calls :
       /\ HasUnknownPair(input[c])
       /\ pc[c] = "failed" /\ err[c].kind = "EntityNotFoundError"
       /\ created[c] = 1

\* C5 (as amended) Soft-delete failure: once delete has returned NOT_DELETED
\* to the removal loop, the call has failed with an InternalServerError whose
\* message is the message of the response, or 'Unknown error' when that
\* message is empty, and the loop stands at the failed removal: no later
\* delete was issued.
SoftDeleteFailure ==
    \A c \in Calls :
       response[c].result = "NOT_DELETED"
       => /\ pc[c] = "failed"
          /\ err[c].kind = "InternalServerError"
          /\ err[c].message =
                (IF response[c].message = "" THEN "Unknown error" ELSE response[c].message)
          /\ removeIdx[c] <= Len(toRemoveChannelRoles[c])
          /\ toRemoveChannelRoles[c][removeIdx[c]] \in store

\* the first of two removals failed with a message; the second was not issued
SoftDeleteFailureWitness ==
    \E c \in Calls :
       /\ response[c].result = "NOT_DELETED" /\ response[c].message # ""
       /\ removeIdx[c] = 1 /\ Len(toRemoveChannelRoles[c]) = 2
       /\ toRemoveChannelRoles[c][2] \in store

\* C5 (as claimed) the InternalServerError always carries the message of the
\* store's response.
SoftDeleteFailureCarriesMessage ==
    \A c \in Calls :
       response[c].result = "NOT_DELETED"
       => /\ pc[c] = "failed"
          /\ err[c].kind = "InternalServerError"
          /\ err[c].message = response[c].message

\* C6 delete has three outcomes: EntityNotFoundError raised, the store as it
\* was, exactly when the id resolves to no association; else a DELETED
\* response, the association gone and nothing else changed; or a NOT_DELETED
\* response that carries the message of the failed removal, the store as it was.
DeleteOutcomes ==
    [][ev'.op = "delete"
         => IF ~ChannelRoleExists(store, ev'.id)
            THEN ev'.outcome = "EntityNotFoundError" /\ store' = store
            ELSE \/ /\ ev'.outcome = "DELETED"
                    /\ ~ChannelRoleExists(store', ev'.id)
                    /\ store' = {cr \in store : cr.id # ev'.id}
                 \/ /\ ev'.outcome = "NOT_DELETED"
                    /\ ev'.message = ev'.cause
                    /\ store' = store]_vars

\* a removal failed with a message: NOT_DELETED, the association still there
DeleteOutcomesWitness ==
    /\ ev.op = "delete" /\ ev.outcome = "NOT_DELETED"
    /\ ev.message # ""
    /\ ChannelRoleExists(store, ev.id)
\* the rows of st that hold the pair p for the user, ids in their string form
RowsWithPair(st, userId, p) ==
    {cr \in RowsOfUser(st, userId) :
        /\ IdToString(cr.channelId) = IdToString(p.channelId)
        /\ IdToString(cr.roleId) = IdToString(p.roleId)}

\* C7 Duplicate desired pairs collapse: after a successful, undisturbed call,
\* every desired pair that was not persisted when the call loaded the rows
\* has exactly one association.
DuplicatesCollapsed ==
    \A c \in Calls :
       (pc[c] = "done" /\ ~dirty[c])
       => \A i \in 1..Len(input[c]) :
             RowsWithPair(Range(current[c]), user[c], input[c][i]) = {}
             => Cardinality(RowsWithPair(store, user[c], input[c][i])) = 1

\* C8 Non-atomic creation batch: the step at which a creation rejects and
\* saveUserRoles fails with it undoes nothing and cancels nothing: the store is
\* as it was and the other creations of the batch are still in flight, owned
\* by no call; while the call stays failed, rows are only added.  The call goes
\* on to the removals or to its end only when every creation has resolved.
NonAtomicBatch ==
    [][\A c \in Calls :
         /\ pc'[c] \in {"remove", "done"} => created'[c] = Len(toAddPairs'[c])
         /\ (pc[c] = "create" /\ pc'[c] = "failed")
            => /\ store' = store
               /\ BagCardinality(tasks') = BagCardinality(tasks) - 1
               /\ TasksOf(tasks', c) = {}
         /\ (pc[c] = "failed" /\ pc'[c] = "failed") => store \subseteq store']_vars

\* the call failed for a pair of nothing; of its two new pairs one is persisted
NonAtomicBatchWitness ==
    \E c \in Calls :
       /\ pc[c] = "failed" /\ err[c].kind = "EntityNotFoundError"
       /\ Len(toAddPairs[c]) = 2
       /\ \E i, j \in 1..2 :
             /\ RowsWithPair(store, user[c], toAddPairs[c][i]) # {}
             /\ RowsWithPair(store, user[c], toAddPairs[c][j]) = {}

\* C9 Removal order: the rows to remove stand in the order find returned them,
\* and they are deleted one at a time from the first: while no other operation
\* changed the store, the rows before the position of the loop are gone and
\* the row at it and those after it are persisted, so when the k-th removal
\* fails the first k-1 are deleted and the others are not.
RemovalOrder ==
    \A c \in Calls :
       (pc[c] \notin {"idle", "load"} /\ ~dirty[c])
       => /\ toRemoveChannelRoles[c] =
                SelectSeq(current[c], LAMBDA cr : cr \in Range(toRemoveChannelRoles[c]))
          /\ \A i \in 1..Len(toRemoveChannelRoles[c]) :
                (i < removeIdx[c]) <=> (toRemoveChannelRoles[c][i] \notin store)

\* the second removal failed: the first row is gone, the second still there
RemovalOrderWitness ==
    \E c \in Calls :
       /\ pc[c] = "failed" /\ response[c].result = "NOT_DELETED"
       /\ removeIdx[c] = 2
       /\ toRemoveChannelRoles[c][1] \notin store
       /\ toRemoveChannelRoles[c][2] \in store

\* C10 Retry convergence: a call that repeats the desired pairs of the failed
\* call before it, and completes without error and without another operation
\* changing the store, leaves exactly the desired pairs persisted for the user.
RetryConvergence ==
    \A c \in Calls :
       (pc[c] = "done" /\ ~dirty[c] /\ repeat[c] \in {"afterFail", "afterPartialFail"})
       => PersistedPairs(user[c]) = DesiredPairs(input[c])

\* the retry of a call that had failed after changing the store has succeeded,
\* and it had a removal left to do
RetryConvergenceWitness ==
    \E c \in Calls :
       /\ pc[c] = "done" /\ ~dirty[c] /\ repeat[c] = "afterPartialFail"
       /\ Len(toRemoveChannelRoles[c]) > 0

\* the desired pairs of the calls that have saved the roles of userId
DesiredByCalls(userId) ==
    UNION {DesiredPairs(input[c]) : c \in {d \in Calls : pc[d] # "idle" /\ idsAreEqual(user[d], userId)}}

\* C11: racing saves for one user lose updates: when every call has fulfilled and no
\* other operation wrote, the persisted pairs of the user lie within the union of the
\* desired sets of the calls, and (the witness) they can differ from each desired set
LostUpdate ==
    \A u \in UserIds :
       ( /\ \A c \in Calls : pc[c] \in {"idle", "done"} /\ ~foreign[c]
         /\ \E c \in Calls : pc[c] = "done" /\ idsAreEqual(user[c], u) )
       => PersistedPairs(u) \subseteq DesiredByCalls(u)

\* both calls loaded no rows, both created their pairs, both fulfilled: D1 \cup D2
LostUpdateWitness ==
    /\ pc[1] = "done" /\ pc[2] = "done"
    /\ ~foreign[1] /\ ~foreign[2]
    /\ idsAreEqual(user[1], user[2])
    /\ current[1] = <<>> /\ current[2] = <<>>
    /\ PersistedPairs(user[1]) # DesiredPairs(input[1])
    /\ PersistedPairs(user[1]) # DesiredPairs(input[2])
    /\ PersistedPairs(user[1]) = DesiredPairs(input[1]) \cup DesiredPairs(input[2])

\* C12: getPermissionsForUser returns exactly one entry per persisted association of
\* the user, with the id, token and code of its channel and the permissions of its
\* role; no association gives an empty sequence, roles in one channel are not merged
PermissionViewShape ==
    [][view' # view =>
          LET rows == RowsOfUser(store, view'.userId)
              entries == view'.entries
          IN  /\ Len(entries) = Cardinality(rows)
              /\ (rows = {}) = (entries = <<>>)
              /\ \E f \in Perms(rows) :
                    \A i \in 1..Len(entries) :
                       /\ entries[i].id = f[i].channelId
                       /\ entries[i].token = ChannelToken(f[i].channelId)
                       /\ entries[i].code = ChannelCode(f[i].channelId)
                       /\ entries[i].permissions = RolePermissions(f[i].roleId)]_vars

\* a user with (channelA, roleX) and (channelB, roleY) was given two entries
PermissionViewShapeWitness ==
    /\ view.called
    /\ Cardinality(RowsOfUser(store, view.userId)) = 2
    /\ Len(view.entries) = 2
    /\ view.entries[1].id # view.entries[2].id
    /\ view.entries[1].permissions # view.entries[2].permissions

\* C13 as stated: no two entries of the view carry the same channel id
ViewChannelsDistinct ==
    \A i, j \in 1..Len(view.entries) :
       i # j => view.entries[i].id # view.entries[j].id

\* C13: the view has one tuple per association: for every channel as many entries
\* carry its id as the user has associations in it
OneEntryPerAssociation ==
    [][view' # view =>
          /\ \A i \in 1..Len(view'.entries) : view'.entries[i].id \in ChannelIds
          /\ \A ch \in ChannelIds :
                Cardinality({i \in 1..Len(view'.entries) : view'.entries[i].id = ch})
                = Cardinality({cr \in RowsOfUser(store, view'.userId) : cr.channelId = ch})]_vars

\* a user with two roles in one channel was given two entries for that channel
OneEntryPerAssociationWitness ==
    /\ view.called
    /\ Len(view.entries) = 2
    /\ view.entries[1].id = view.entries[2].id
    /\ view.entries[1].permissions # view.entries[2].permissions
    /\ \A cr \in RowsOfUser(store, view.userId) : cr.channelId = view.entries[1].id

\* C14: a successful update(id, userId, channelId, roleId) leaves exactly one
\* association with that id, its user, channel and role are the given ones, and
\* every other association is as it was
UpdateReplacesAll ==
    [][(ev'.op = "update" /\ ev'.outcome = "updated") =>
          /\ ChannelRoleExists(store, ev'.id)
          /\ \E cr \in store' :
                /\ cr.id = ev'.id
                /\ idsAreEqual(cr.userId, ev'.userId) /\ cr.userId \in UserIds
                /\ idsAreEqual(cr.channelId, ev'.channelId) /\ cr.channelId \in ChannelIds
                /\ idsAreEqual(cr.roleId, ev'.roleId) /\ cr.roleId \in RoleIds
                /\ \A other \in store' : other.id = ev'.id => other = cr
          /\ {cr \in store' : cr.id # ev'.id} = {cr \in store : cr.id # ev'.id}
          /\ nextId' = nextId]_vars

\* an association was repointed to user "43", channel "1", role "10" given in string
\* form, next to another association
UpdateReplacesAllWitness ==
    /\ ev.op = "update" /\ ev.outcome = "updated"
    /\ ev.userId = StrId("43") /\ ev.channelId = StrId("1") /\ ev.roleId = StrId("10")
    /\ \E cr \in store :
          cr.id = ev.id /\ cr.userId = NumId(43) /\ cr.channelId = NumId(1) /\ cr.roleId = NumId(10)
    /\ \E cr \in store : cr.id # ev.id /\ cr.userId = NumId(42)

\* C15: createAdministrator and updateAdministrator fail with IllegalOperationError
\* for every input and call nothing: administratorService receives no call and no
\* association changes; a call reaches administratorService only from
\* createChannelAdministrator or updateChannelAdministrator
OverridesRejected ==
    [][/\ mutation'.name \in {"createAdministrator", "updateAdministrator"}
          => /\ mutation'.outcome = "IllegalOperationError"
             /\ administratorService' = administratorService
             /\ store' = store /\ tasks' = tasks /\ nextId' = nextId
       /\ administratorService' # administratorService
          => /\ mutation'.name \in {"createChannelAdministrator", "updateChannelAdministrator"}
             /\ administratorService' =
                   Append(administratorService,
                          [method |-> IF mutation'.name = "createChannelAdministrator"
                                      THEN "create" ELSE "update",
                           input |-> mutation'.input])]_vars

\* updateAdministrator was refused after the added mutations had reached the service
OverridesRejectedWitness ==
    /\ mutation.name = "updateAdministrator"
    /\ mutation.outcome = "IllegalOperationError"
    /\ Len(mutation.input.channelRoles) > 0
    /\ \E i, j \in 1..Len(administratorService) :
          administratorService[i].method = "create" /\ administratorService[j].method = "update"

\* the pair of a row or of a desired pair, ids in their string form
PairKey(x) == <<IdToString(x.channelId), IdToString(x.roleId)>>

\* C16: once the find has resolved, toAddPairs is the desired pairs, in order, whose
\* (channel, role) in string form is the pair of no current row, and
\* toRemoveChannelRoles is the current rows, in order, whose pair is no desired pair;
\* the three stated examples give (1, 2), (2, 0) and (0, 0) creations and deletions
DiffComputation ==
    /\ \A c \in Calls :
          pc[c] \notin {"idle", "load"} =>
             /\ toAddPairs[c] =
                   SelectSeq(input[c], LAMBDA p : PairKey(p) \notin {PairKey(cr) : cr \in Range(current[c])})
             /\ toRemoveChannelRoles[c] =
                   SelectSeq(current[c], LAMBDA cr : PairKey(cr) \notin {PairKey(p) : p \in Range(input[c])})
    /\ LET cr1 == NewChannelRole(1, NumId(42), NumId(1), NumId(10))
           cr2 == NewChannelRole(2, NumId(42), NumId(2), NumId(20))
       IN  /\ Len(ToAddPairs(<<cr1, cr2>>, <<Pair(NumId(1), NumId(99))>>)) = 1
           /\ Len(ToRemoveChannelRoles(<<cr1, cr2>>, <<Pair(NumId(1), NumId(99))>>)) = 2
           /\ Len(ToAddPairs(<<>>, <<Pair(NumId(1), NumId(10)), Pair(NumId(2), NumId(20))>>)) = 2
           /\ Len(ToRemoveChannelRoles(<<>>, <<Pair(NumId(1), NumId(10)), Pair(NumId(2), NumId(20))>>)) = 0
           /\ Len(ToAddPairs(<<cr1>>, <<Pair(StrId("1"), StrId("10"))>>)) = 0
           /\ Len(ToRemoveChannelRoles(<<cr1>>, <<Pair(StrId("1"), StrId("10"))>>)) = 0

\* desired [("1", "10")] against the one current row (1, 10): nothing to add or remove
DiffComputationWitness ==
    \E c \in Calls :
       /\ pc[c] = "done"
       /\ input[c] = <<Pair(StrId("1"), StrId("10"))>>
       /\ Len(current[c]) = 1
       /\ current[c][1].channelId = NumId(1) /\ current[c][1].roleId = NumId(10)
       /\ toAddPairs[c] = <<>> /\ toRemoveChannelRoles[c] = <<>>

\* C17: the removal loop starts only when every creation of the batch has resolved:
\* while a creation of the call is unresolved or has rejected, the call has issued no
\* delete, and (nothing else writing) every row its find returned is still persisted
CreationBeforeRemoval ==
    \A c \in Calls :
       /\ (pc[c] \in {"create", "remove", "done", "failed"} /\ created[c] < Len(toAddPairs[c]))
             => /\ pc[c] \in {"create", "failed"}
                /\ removeIdx[c] = 1
                /\ response[c] = NoResponse
                /\ ~dirty[c] => Range(current[c]) \subseteq store
       /\ (pc[c] = "remove" \/ removeIdx[c] > 1 \/ response[c] # NoResponse)
             => /\ created[c] = Len(toAddPairs[c])
                /\ TasksOf(tasks, c) = {}

\* one creation of two committed, the other rejected: the call failed and the row it
\* was to remove is still persisted
CreationBeforeRemovalWitness ==
    \E c \in Calls :
       /\ pc[c] = "failed" /\ ~dirty[c]
       /\ Len(toAddPairs[c]) = 2 /\ created[c] = 1
       /\ Len(toRemoveChannelRoles[c]) = 1
       /\ toRemoveChannelRoles[c][1] \in store

\* the rows of the user persisted with the pair of cr
RowsLike(st, cr) == {x \in RowsOfUser(st, cr.userId) : PairKey(x) = PairKey(cr)}

\* C18: a row the find returned whose pair is a desired pair is in neither diff and
\* stays persisted under its id while the call runs and after it has fulfilled or
\* rejected; nothing else writing, no further row with its pair is created
RetainedUntouched ==
    \A c \in Calls :
       pc[c] \notin {"idle", "load"} =>
          \A cr \in Range(current[c]) :
             PairKey(cr) \in DesiredPairs(input[c]) =>
                /\ cr \notin Range(toRemoveChannelRoles[c])
                /\ PairKey(cr) \notin {PairKey(p) : p \in Range(toAddPairs[c])}
                /\ cr \in store
                /\ ~dirty[c] => RowsLike(store, cr) = RowsLike(Range(current[c]), cr)

\* a call that kept one row and was to create another pair has rejected
RetainedUntouchedWitness ==
    \E c \in Calls :
       /\ pc[c] = "failed" /\ ~dirty[c]
       /\ Len(toAddPairs[c]) > 0
       /\ \E cr \in Range(current[c]) :
             PairKey(cr) \in DesiredPairs(input[c]) /\ cr \in store

\* C19: saveUserRoles(U, D) creates and deletes rows of U only: every creation it
\* starts carries U, a row that appears is the row of a creation in flight, a row
\* that disappears is the row of U at the position of a removal loop, and while the
\* call runs with nothing else writing the rows of every other user stay as they were
UserIsolation ==
    [][/\ \A c \in Calls :
             (pc[c] = "load" /\ pc'[c] # "load") =>
                \A t \in TasksOf(tasks', c) : t.userId = user[c]
       /\ \A cr \in store' \ store :
             \E t \in BagToSet(tasks) : t.stage = "save" /\ idsAreEqual(t.userId, cr.userId)
       /\ \A cr \in store \ store' :
             \E c \in Calls :
                /\ pc[c] = "remove"
                /\ idsAreEqual(cr.userId, user[c])
                /\ cr = toRemoveChannelRoles[c][removeIdx[c]]
       /\ \A c \in Calls :
             (pc[c] \in {"create", "remove"} /\ ~dirty'[c]) =>
                \A u \in UserIds :
                   ~idsAreEqual(u, user[c]) =>
                      {cr \in store' : cr.userId = u} = {cr \in store : cr.userId = u}]_vars

\* a call for one user has removed a row and fulfilled while another user has a row
UserIsolationWitness ==
    \E c \in Calls :
       /\ pc[c] = "done" /\ ~dirty[c]
       /\ Len(toRemoveChannelRoles[c]) > 0
       /\ \E cr \in store : ~idsAreEqual(cr.userId, user[c])

SameTriple(cr1, cr2) ==
    /\ cr1.id # cr2.id
    /\ cr1.userId = cr2.userId /\ cr1.channelId = cr2.channelId /\ cr1.roleId = cr2.roleId

\* C21: every creation that resolves adds a row, also when a row with the same
\* (user, channel, role) is persisted, so two calls that both loaded before either
\* created leave two such rows; a call that fulfils with nothing else writing has
\* kept every row it loaded whose pair is desired and removed every row whose pair is
\* not, rows with the same triple alike
DuplicateTriple ==
    [][\A c \in Calls :
          /\ created'[c] = created[c] + 1
                => Cardinality(store') = Cardinality(store) + 1
          /\ (pc[c] # "done" /\ pc'[c] = "done" /\ ~dirty'[c])
                => \A cr \in Range(current'[c]) :
                      IF PairKey(cr) \in DesiredPairs(input'[c])
                      THEN RowsLike(store', cr) = RowsLike(Range(current'[c]), cr)
                      ELSE RowsLike(store', cr) = {}]_vars

\* call d loaded no row and created one for the pair, another call did the same
\* meanwhile; a later call c with the pair in its desired list loaded both rows and
\* has fulfilled with both persisted
DuplicateTripleWitness ==
    \E c, d \in Calls :
       /\ c # d
       /\ pc[d] = "done" /\ current[d] = <<>> /\ created[d] = 1
       /\ pc[c] = "done" /\ ~dirty[c]
       /\ Len(current[c]) = 2
       /\ SameTriple(current[c][1], current[c][2])
       /\ PairKey(current[c][1]) \in DesiredPairs(input[c])
       /\ PairKey(current[c][1]) \in DesiredPairs(input[d])
       /\ toAddPairs[c] = <<>> /\ toRemoveChannelRoles[c] = <<>>
       /\ {current[c][1], current[c][2]} \subseteq store

\* the racing calls have both fulfilled: two persisted rows carry the same triple
DuplicateTripleReached ==
    /\ \A c \in Calls : pc[c] = "done" /\ current[c] = <<>> /\ created[c] = 1
    /\ \E cr1, cr2 \in store : SameTriple(cr1, cr2)

\* a later call without the pair in its desired list has removed both rows
DuplicateTripleRemoved ==
    \E c, d \in Calls :
       /\ c # d
       /\ pc[d] = "done" /\ current[d] = <<>> /\ created[d] = 1
       /\ pc[c] = "done" /\ ~dirty[c]
       /\ Len(current[c]) = 2
       /\ SameTriple(current[c][1], current[c][2])
       /\ toRemoveChannelRoles[c] = current[c]
       /\ RowsOfUser(store, user[c]) = {}
====
